---- MODULE Spec2Model ----
(***************************************************************************)
(* Model of leh-torres/mcc_index: three Python programs that drive the     *)
(* external MCC matching engine (MccSdk).                                  *)
(*                                                                         *)
(*   "api"     src/mcc_api.py      class MccFingerprintMatcher (script)    *)
(*   "service" src/mcc_api2.py     class MccMatcherService + Flask routes  *)
(*   "script"  src/mcc_service.py  criar_indice_mcc, buscar_no_indice,     *)
(*                                 buscar_e_comparar, buscar_com_politicas *)
(*                                                                         *)
(* Scores are engine-defined reals; the model uses the integers            *)
(* 0..MaxScore, on which <, - and the descending sort behave as on reals.  *)
(***************************************************************************)
EXTENDS Integers, Sequences, FiniteSets, TLC

VARIABLES
    programa,       \* which program runs: "api", "service", "script", or "funcoes"
    pasta,          \* the templates folder: the set of file names in it
    indice_disco,   \* the index file: None, or Some(the identities saved in it)
    engine,         \* MccSdk's one in-memory index: None, or Some(identities)
    templates_map,  \* the matcher object's ID -> file name dict
    th,             \* per thread of control: the call it is in and its locals
    entrada,        \* ranking runs: the engine's search result under test
    chamada,        \* ranking runs: the function applied and its arguments
    saida           \* ranking runs: what the function returned

vars == <<programa, pasta, indice_disco, engine, templates_map, th,
          entrada, chamada, saida>>
lifeVars == <<programa, pasta, indice_disco, engine, templates_map, th>>
rankVars == <<entrada, chamada, saida>>

\* ------------------------------------------------------------------ bounds
\* Largest number of candidates one engine search reports.
MaxRaw == 3
\* Largest similarity score the engine reports (scores are 0..MaxScore).
MaxScore == 2

\* Largest number of candidates a search reports in the lifecycle runs.
MaxHits == 1

\* Template identities the engine may report.
Ids == {0, 1}
Scores == 0..MaxScore
\* top_n values a caller may pass (the /search handler does not validate it).
TopNs == (0 - 2)..(MaxRaw + 1)
\* score_minimo / limiar_match / limiar_ambiguidade values a caller may pass.
Limiares == 0..(MaxScore + 1)
\* max_candidatos values a caller may pass.
MaxCands == 0..MaxRaw

Min(a, b) == IF a <= b THEN a ELSE b
Max(a, b) == IF a >= b THEN a ELSE b

\* Python's None, and a present value, for a field that may be None.
None == <<>>
Some(v) == <<v>>

\* ------------------------------------------------------- engine results
\* What MccSdk.SearchTextTemplateIntoMccIndex hands back: it raises, or it
\* returns something that is not a 2-tuple, or it returns the tuple
\* (candidateList, sortedSimilarities) of two parallel sequences.
Tuples(n) ==
    { [shape |-> "tuple", candidateList |-> c, sortedSimilarities |-> s] :
        c \in [1..n -> Ids], s \in [1..n -> Scores] }
Malformed == [shape |-> "malformed", candidateList |-> <<>>, sortedSimilarities |-> <<>>]
Raises == [shape |-> "raise", candidateList |-> <<>>, sortedSimilarities |-> <<>>]
SearchResults == UNION { Tuples(n) : n \in 0..MaxRaw }
EngineResults == SearchResults \cup {Malformed, Raises}
LifeResults == UNION { Tuples(n) : n \in 0..MaxHits } \cup {Malformed, Raises}

\* ------------------------------------------------------ Python built-ins
\* seq[:n]: the first n items; a negative n drops the last -n items.
Slice(seq, n) ==
    IF n >= 0 THEN SubSeq(seq, 1, Min(n, Len(seq)))
              ELSE SubSeq(seq, 1, Max(0, Len(seq) + n))

\* range(min(len(candidateList), max_candidatos)) as the 1-based positions.
RangeMin(len, max_candidatos) == 1..Min(len, max_candidatos)

\* Mutant of InsertDesc: x goes before the items of equal score, which
\* reverses the arrival order of ties (an unstable descending sort).
InsertDesc_BeforeTies(sorted, x) ==
    LET p == Cardinality({ i \in 1..Len(sorted) : sorted[i].score > x.score })
    IN  SubSeq(sorted, 1, p) \o <<x>> \o SubSeq(sorted, p + 1, Len(sorted))

\* One step of the stable descending sort: x goes after every item whose
\* score is >= its own, so equal scores keep the order they arrived in.
InsertDesc(sorted, x) ==
    LET p == Cardinality({ i \in 1..Len(sorted) : sorted[i].score >= x.score })
    IN  SubSeq(sorted, 1, p) \o <<x>> \o SubSeq(sorted, p + 1, Len(sorted))

\* list.sort(key=lambda x: x['score'], reverse=True): stable, descending.
RECURSIVE SortReverse(_)
SortReverse(seq) ==
    IF seq = <<>> THEN <<>>
    ELSE InsertDesc(SortReverse(SubSeq(seq, 1, Len(seq) - 1)), seq[Len(seq)])

\* ------------------------------------------------------------ file names
\* A file name is its sequence of code points, so that sorted(), lower() and
\* endswith() are computed as Python computes them on str.
a_txt == <<97, 46, 116, 120, 116>>       \* "a.txt"
B_txt == <<66, 46, 116, 120, 116>>       \* "B.txt"
c_TXT == <<99, 46, 84, 88, 84>>          \* "c.TXT"
n_dat == <<110, 46, 100, 97, 116>>       \* "n.dat"
dot_txt == <<46, 116, 120, 116>>         \* ".txt"

\* str.lower() on the ASCII names of the model.
Lower(nome) ==
    [i \in 1..Len(nome) |-> IF nome[i] >= 65 /\ nome[i] <= 90 THEN nome[i] + 32 ELSE nome[i]]

\* str.endswith(suffix)
EndsWith(nome, suffix) ==
    /\ Len(nome) >= Len(suffix)
    /\ SubSeq(nome, Len(nome) - Len(suffix) + 1, Len(nome)) = suffix

\* str < str: code point by code point, a proper prefix first.
RECURSIVE StrLess(_, _)
StrLess(x, y) ==
    IF y = <<>> THEN FALSE
    ELSE IF x = <<>> THEN TRUE
    ELSE IF x[1] # y[1] THEN x[1] < y[1]
    ELSE StrLess(Tail(x), Tail(y))

\* Mutant of Sorted: sorted(names, key=str.lower), ascending by the
\* lower-cased names.
Sorted_CaseInsensitive(names) ==
    CHOOSE s \in [1..Cardinality(names) -> names] :
        /\ \A j, k \in DOMAIN s : j # k => s[j] # s[k]
        /\ \A j, k \in DOMAIN s : j < k => ~StrLess(Lower(s[k]), Lower(s[j]))

\* sorted(names): ascending by str <.
RECURSIVE Sorted(_)
Sorted(names) ==
    IF names = {} THEN <<>>
    ELSE LET first == CHOOSE x \in names : \A y \in names \ {x} : StrLess(x, y)
         IN  <<first>> \o Sorted(names \ {first})

\* sorted([f for f in os.listdir(pasta) if f.lower().endswith('.txt')])
ListarTemplates(dir) ==
    Sorted({ f \in dir : EndsWith(Lower(f), dot_txt) })

\* {i: arq for i, arq in enumerate(arquivos)}: identities are 0-based.
Enumerate(arquivos) ==
    [i \in 0..(Len(arquivos) - 1) |-> arquivos[i + 1]]

\* f'ID_{candidate_id}'
Placeholder(candidate_id) ==
    <<73, 68, 95>> \o <<48 + candidate_id>>

\* Mutant of MapGet: the default is the bare identity, without the "ID_"
\* prefix.
MapGet_BareId(map, candidate_id) ==
    IF candidate_id \in DOMAIN map THEN map[candidate_id] ELSE <<48 + candidate_id>>

\* templates_map.get(candidate_id, f'ID_{candidate_id}')
MapGet(map, candidate_id) ==
    IF candidate_id \in DOMAIN map THEN map[candidate_id] ELSE Placeholder(candidate_id)

\* Mutant of Kept: the filter the source's comment describes ("score >
\* score_minimo"), which drops a candidate at exactly score_minimo.
Kept_Strict(score, score_minimo) == score > score_minimo

\* ------------------------------------------------- ranking (api, service)
\* "if score < score_minimo: continue": the candidate is kept otherwise.
Kept(score, score_minimo) == ~(score < score_minimo)

\* Mutant of CandidatosValidos: the loop starts at position 1 of the
\* 0-based list (range(1, len(candidateList))) and misses the first candidate.
CandidatosValidos_SkipFirst(resultado, score_minimo, map) ==
    LET n == Len(resultado.candidateList)
        todos == [i \in 1..(n - 1) |->
                    [id |-> resultado.candidateList[i + 1],
                     arquivo |-> MapGet(map, resultado.candidateList[i + 1]),
                     score |-> resultado.sortedSimilarities[i + 1]]]
    IN  SelectSeq(todos, LAMBDA c : Kept(c.score, score_minimo))

\* The loop over range(len(candidateList)) that builds candidatos_validos.
CandidatosValidos(resultado, score_minimo, map) ==
    LET n == Len(resultado.candidateList)
        todos == [i \in 1..n |->
                    [id |-> resultado.candidateList[i],
                     arquivo |-> MapGet(map, resultado.candidateList[i]),
                     score |-> resultado.sortedSimilarities[i]]]
    IN  SelectSeq(todos, LAMBDA c : Kept(c.score, score_minimo))

\* Mutant of TopN: the sort is forgotten, the engine's order is kept.
TopN_Unsorted(candidatos_validos, top_n) == Slice(candidatos_validos, top_n)

\* candidatos_validos.sort(...); candidatos_validos[:top_n]; rank from 1.
TopN(candidatos_validos, top_n) == Slice(SortReverse(candidatos_validos), top_n)

\* MccFingerprintMatcher.buscar_similares, the body of its try block on the
\* engine's result: exc is the exception that leaves the block ("none" when
\* it returns), ret the returned list of CandidatoSimilar (caminho_completo,
\* the join of the folder and arquivo, is left out).
ApiTryBody(resultado, top_n, score_minimo, map) ==
    IF resultado.shape = "raise" THEN [exc |-> "EngineError", ret |-> <<>>]
    ELSE IF resultado.shape # "tuple" THEN [exc |-> "none", ret |-> <<>>]
    ELSE IF Len(resultado.candidateList) = 0 THEN [exc |-> "none", ret |-> <<>>]
    ELSE LET top == TopN(CandidatosValidos(resultado, score_minimo, map), top_n)
         IN  [exc |-> "none",
              ret |-> [r \in 1..Len(top) |->
                         [id |-> top[r].id, arquivo |-> top[r].arquivo,
                          score |-> top[r].score, rank |-> r]]]

\* MccMatcherService.buscar_similares, the try/except on the engine's result:
\* the returned dict (tempo_ms left out). The unpacking of a result that is
\* not a 2-tuple raises inside the try and is caught like an engine error.
SvcTryBody(resultado, top_n, score_minimo, map) ==
    IF resultado.shape # "tuple"
    THEN [status |-> "erro", mensagem |-> resultado.shape, candidatos |-> <<>>]
    ELSE IF Len(resultado.candidateList) = 0
    THEN [status |-> "sucesso", total_encontrados |-> 0, candidatos |-> <<>>]
    ELSE LET validos == CandidatosValidos(resultado, score_minimo, map)
             top == TopN(validos, top_n)
         IN  [status |-> "sucesso",
              total_encontrados |-> Len(validos),
              candidatos |-> [r \in 1..Len(top) |->
                                [rank |-> r, arquivo |-> top[r].arquivo,
                                 score_mcc |-> top[r].score]]]

\* ------------------------------------------------------ script functions
\* buscar_no_indice, the try/except on the engine's result.
BuscarNoIndice(resultado, max_candidatos) ==
    IF resultado.shape # "tuple" THEN <<>>
    ELSE [i \in RangeMin(Len(resultado.candidateList), max_candidatos) |->
            [id |-> resultado.candidateList[i], rank |-> i,
             score |-> resultado.sortedSimilarities[i]]]

\* buscar_e_comparar, the try/except on the engine's result: the candidates
\* in the engine's order, cut to max_candidatos, named by position in the
\* sorted listing.
BuscarEComparar(resultado, arquivos, max_candidatos) ==
    IF resultado.shape # "tuple" THEN <<>>
    ELSE [i \in RangeMin(Len(resultado.candidateList), max_candidatos) |->
            LET candidate_id == resultado.candidateList[i]
            IN  [id |-> candidate_id,
                 score |-> resultado.sortedSimilarities[i],
                 arquivo |-> IF candidate_id < Len(arquivos)
                             THEN arquivos[candidate_id + 1]
                             ELSE Placeholder(candidate_id),
                 rank |-> i]]

\* Mutant of Politicas: ambiguity is tested before the threshold.
Politicas_AmbiguityFirst(candidatos, limiar_match, limiar_ambiguidade) ==
    LET base == [status |-> "None", id |-> None, score |-> None, candidatos |-> candidatos]
    IN  IF Len(candidatos) = 0
        THEN [base EXCEPT !.status = "NAO_ENCONTRADO"]
        ELSE IF /\ Len(candidatos) > 1
                /\ candidatos[1].score - candidatos[2].score < limiar_ambiguidade
        THEN [base EXCEPT !.status = "AMBIGUO"]
        ELSE IF candidatos[1].score < limiar_match
        THEN [base EXCEPT !.status = "ABAIXO_LIMIAR", !.score = Some(candidatos[1].score)]
        ELSE [base EXCEPT !.status = "MATCH", !.id = Some(candidatos[1].id),
                          !.score = Some(candidatos[1].score)]

\* Mutant of Politicas: the ambiguous outcome carries the top score too.
Politicas_ScoreOnAmbiguo(candidatos, limiar_match, limiar_ambiguidade) ==
    LET base == [status |-> "None", id |-> None, score |-> None, candidatos |-> candidatos]
    IN  IF Len(candidatos) = 0
        THEN [base EXCEPT !.status = "NAO_ENCONTRADO"]
        ELSE IF candidatos[1].score < limiar_match
        THEN [base EXCEPT !.status = "ABAIXO_LIMIAR", !.score = Some(candidatos[1].score)]
        ELSE IF /\ Len(candidatos) > 1
                /\ candidatos[1].score - candidatos[2].score < limiar_ambiguidade
        THEN [base EXCEPT !.status = "AMBIGUO", !.score = Some(candidatos[1].score)]
        ELSE [base EXCEPT !.status = "MATCH", !.id = Some(candidatos[1].id),
                          !.score = Some(candidatos[1].score)]

\* buscar_com_politicas, after the search: the decision on candidatos.
Politicas(candidatos, limiar_match, limiar_ambiguidade) ==
    LET base == [status |-> "None", id |-> None, score |-> None, candidatos |-> candidatos]
    IN  IF Len(candidatos) = 0
        THEN [base EXCEPT !.status = "NAO_ENCONTRADO"]
        ELSE IF candidatos[1].score < limiar_match
        THEN [base EXCEPT !.status = "ABAIXO_LIMIAR", !.score = Some(candidatos[1].score)]
        ELSE IF /\ Len(candidatos) > 1
                /\ candidatos[1].score - candidatos[2].score < limiar_ambiguidade
        THEN [base EXCEPT !.status = "AMBIGUO"]
        ELSE [base EXCEPT !.status = "MATCH", !.id = Some(candidatos[1].id),
                          !.score = Some(candidatos[1].score)]

\* ---------------------------------------------------------------- threads
\* The service answers each HTTP request on a thread of its own (app.run of
\* Flask's development server); the api and script programs are one thread.
Threads == {"t1", "t2"}

NoRet == [exc |-> "none", val |-> None]

\* A thread outside any call. calls logs the engine calls of the current
\* call, in order, each with whether it raised; adds logs the arguments of
\* its AddTextTemplateToMccIndex calls; arquivos_mapa is the listing its
\* reload of the mapping enumerated.
Idle == [op |-> "idle", pc |-> "idle", calls |-> <<>>, ret |-> NoRet,
         probe_existe |-> TRUE, indice_existe |-> TRUE,
         arquivos |-> <<>>, i |-> 0, sucessos |-> 0, erros |-> <<>>,
         adds |-> <<>>, arquivos_mapa |-> <<>>]

SearchOps ==
    CASE programa = "api" -> {"buscar_similares", "buscar_similares_json"}
      [] programa = "service" -> {"buscar_similares"}
      [] programa = "script" -> {"buscar_no_indice", "buscar_e_comparar", "buscar_com_politicas"}
      [] OTHER -> {}
CreateOps ==
    CASE programa = "api" -> {"criar_indice"}
      [] programa = "service" -> {"setup"}
      [] programa = "script" -> {"criar_indice_mcc"}
      [] OTHER -> {}
AllSearchOps == {"buscar_similares", "buscar_similares_json", "buscar_no_indice",
                 "buscar_e_comparar", "buscar_com_politicas"}
AllCreateOps == {"criar_indice", "setup", "criar_indice_mcc"}

CanRun(t) == programa = "service" \/ t = "t1"

Call(fn, raised) == [fn |-> fn, raised |-> raised]
Logged(t, fn, raised) == [th EXCEPT ![t].calls = Append(@, Call(fn, raised))]
EngineIds == IF engine = None THEN {} ELSE engine[1]

\* Where buscar_similares ends: back in the try block of
\* buscar_similares_json when that is the caller, else the call is over.
Fim(op) == IF op = "buscar_similares_json" THEN "json" ELSE "done"

\* The exception leaves the function: nothing after it in the function runs.
Raise(t, fn, exc) ==
    [th EXCEPT ![t].calls = IF fn = "" THEN @ ELSE Append(@, Call(fn, TRUE)),
               ![t].pc = Fim(th[t].op),
               ![t].ret = [exc |-> exc, val |-> None]]

\* ------------------------------------------------------ search lifecycle
\* The start of a search call up to the engine load: the os.path.exists
\* checks of the api and service methods; the script functions have none.
BuscarInicio(t, op) ==
    /\ th[t].pc = "idle"
    /\ CanRun(t)
    /\ op \in SearchOps
    /\ \E probe_existe \in BOOLEAN :
         LET indice_existe == indice_disco # None
             started == [Idle EXCEPT !.op = op, !.probe_existe = probe_existe,
                                     !.indice_existe = indice_existe]
             ended(ret) == [started EXCEPT !.pc = Fim(op), !.ret = ret]
         IN  th' = [th EXCEPT ![t] =
               CASE programa = "api" /\ ~probe_existe ->
                        ended([exc |-> "FileNotFoundError", val |-> None])
                 [] programa = "api" /\ probe_existe /\ ~indice_existe ->
                        ended([exc |-> "FileNotFoundError", val |-> None])
                 [] programa = "api" /\ probe_existe /\ indice_existe
                                     /\ DOMAIN templates_map = {} ->
                        ended([exc |-> "ValueError", val |-> None])
                 [] programa = "service" /\ ~probe_existe ->
                        ended([exc |-> "none",
                               val |-> [status |-> "erro", mensagem |-> "Arquivo nao encontrado",
                                        candidatos |-> <<>>]])
                 [] programa = "service" /\ probe_existe /\ ~indice_existe ->
                        ended([exc |-> "none",
                               val |-> [status |-> "erro", mensagem |-> "Indice nao encontrado",
                                        candidatos |-> <<>>]])
                 [] OTHER -> [started EXCEPT !.pc = "load"]]
    /\ UNCHANGED <<programa, pasta, indice_disco, engine, templates_map, rankVars>>

\* MccSdk.LoadMccIndexFromFile(arquivo_indice), before the try block: the
\* engine raises (always so when the file does not exist), or the index of
\* the file becomes the engine's index.
Load(t) ==
    /\ th[t].pc = "load"
    /\ \/ /\ th' = Raise(t, "LoadMccIndexFromFile", "EngineError")
          /\ UNCHANGED engine
       \/ /\ indice_disco # None
          /\ engine' = indice_disco
          /\ th' = [Logged(t, "LoadMccIndexFromFile", FALSE) EXCEPT ![t].pc = "search"]
    /\ UNCHANGED <<programa, pasta, indice_disco, templates_map, rankVars>>

\* MccSdk.SearchTextTemplateIntoMccIndex(probe, False) and the rest of the
\* try block (and its except clause, where there is one): the value the
\* function is about to return, or the exception about to leave it, is held
\* in ret while the finally clause runs.
Search(t) ==
    /\ th[t].pc = "search"
    /\ \E r \in LifeResults :
         \* the engine cannot read a probe file that does not exist
         /\ (~th[t].probe_existe => r.shape = "raise")
         /\ LET logged == Logged(t, "SearchTextTemplateIntoMccIndex", r.shape = "raise")
             IN  \/ /\ th[t].op \in {"buscar_similares", "buscar_similares_json"}
                    /\ \E top_n \in TopNs, score_minimo \in Limiares :
                         th' = [logged EXCEPT ![t].pc = "release", ![t].ret =
                                 IF programa = "api"
                                 THEN LET b == ApiTryBody(r, top_n, score_minimo, templates_map)
                                      IN  [exc |-> b.exc, val |-> b.ret]
                                 ELSE [exc |-> "none",
                                       val |-> SvcTryBody(r, top_n, score_minimo, templates_map)]]
                 \/ /\ th[t].op = "buscar_no_indice"
                    /\ \E max_candidatos \in MaxCands :
                         th' = [logged EXCEPT ![t].pc = "release", ![t].ret =
                                 [exc |-> "none", val |-> BuscarNoIndice(r, max_candidatos)]]
                 \/ /\ th[t].op \in {"buscar_e_comparar", "buscar_com_politicas"}
                    /\ \E max_candidatos \in MaxCands :
                         th' = [logged EXCEPT ![t].pc = "release", ![t].ret =
                                 [exc |-> "none",
                                  val |-> BuscarEComparar(r, ListarTemplates(pasta), max_candidatos)]]
    /\ UNCHANGED <<programa, pasta, indice_disco, engine, templates_map, rankVars>>

\* Mutant of Release: DeleteMccIndex() is the last statement of the try block
\* instead of a finally clause, so a search that raised skips it.
Release_NoFinally(t) ==
    /\ th[t].pc = "release"
    /\ IF th[t].calls[Len(th[t].calls)].raised
       THEN /\ UNCHANGED engine
            /\ th' = [th EXCEPT ![t].pc = Fim(th[t].op)]
       ELSE /\ engine' = None
            /\ th' = [Logged(t, "DeleteMccIndex", FALSE) EXCEPT ![t].pc = Fim(th[t].op)]
    /\ UNCHANGED <<programa, pasta, indice_disco, templates_map, rankVars>>

\* The finally clause: MccSdk.DeleteMccIndex(). The script functions swallow
\* an exception of it; in the api and service methods it replaces the pending
\* return. buscar_com_politicas then decides on what buscar_e_comparar
\* returned.
Release(t) ==
    /\ th[t].pc = "release"
    /\ \/ /\ engine' = None
          /\ \/ /\ th[t].op # "buscar_com_politicas"
                /\ th' = [Logged(t, "DeleteMccIndex", FALSE) EXCEPT ![t].pc = Fim(th[t].op)]
             \/ /\ th[t].op = "buscar_com_politicas"
                /\ \E limiar_match \in Limiares, limiar_ambiguidade \in Limiares :
                     th' = [Logged(t, "DeleteMccIndex", FALSE) EXCEPT
                              ![t].pc = "done",
                              ![t].ret.val = Politicas(@, limiar_match, limiar_ambiguidade)]
       \/ /\ UNCHANGED engine
          /\ \/ /\ programa \in {"api", "service"}
                /\ th' = Raise(t, "DeleteMccIndex", "EngineError")
             \/ /\ th[t].op \in {"buscar_no_indice", "buscar_e_comparar"}
                /\ th' = [Logged(t, "DeleteMccIndex", TRUE) EXCEPT ![t].pc = "done"]
             \/ /\ th[t].op = "buscar_com_politicas"
                /\ \E limiar_match \in Limiares, limiar_ambiguidade \in Limiares :
                     th' = [Logged(t, "DeleteMccIndex", TRUE) EXCEPT
                              ![t].pc = "done",
                              ![t].ret.val = Politicas(@, limiar_match, limiar_ambiguidade)]
    /\ UNCHANGED <<programa, pasta, indice_disco, templates_map, rankVars>>

\* buscar_similares_json around its call of buscar_similares: the list
\* returned becomes a 'sucesso' dict, an exception the 'erro' dict of the
\* except clause, with str(e) as its message.
BuscarSimilaresJson(t) ==
    /\ th[t].pc = "json"
    /\ th' = [th EXCEPT ![t].pc = "done", ![t].ret =
                IF th[t].ret.exc = "none"
                THEN [exc |-> "none",
                      val |-> [status |-> "sucesso",
                               total_encontrados |-> Len(th[t].ret.val),
                               candidatos |-> th[t].ret.val]]
                ELSE [exc |-> "none",
                      val |-> [status |-> "erro", mensagem |-> th[t].ret.exc,
                               candidatos |-> <<>>]]]
    /\ UNCHANGED <<programa, pasta, indice_disco, engine, templates_map, rankVars>>

\* The call has returned or raised; the thread is free for the next one.
Retornar(t) ==
    /\ th[t].pc = "done"
    /\ th' = [th EXCEPT ![t] = Idle]
    /\ UNCHANGED <<programa, pasta, indice_disco, engine, templates_map, rankVars>>

\* ------------------------------------------------------ create lifecycle
\* criar_indice / criar_indice_mcc up to MccSdk.CreateMccIndex(...): a fresh,
\* empty index replaces the engine's index.
CriarInicio(t, op) ==
    /\ th[t].pc = "idle"
    /\ CanRun(t)
    /\ op \in CreateOps
    /\ LET started == [th EXCEPT ![t] = [Idle EXCEPT !.op = op,
                                           !.indice_existe = indice_disco # None]]
       IN  \/ /\ engine' = Some({})
              /\ th' = [started EXCEPT ![t].pc = "listdir",
                                        ![t].calls = <<Call("CreateMccIndex", FALSE)>>]
           \/ /\ UNCHANGED engine
              /\ th' = [started EXCEPT ![t].pc = "done",
                                        ![t].calls = <<Call("CreateMccIndex", TRUE)>>,
                                        ![t].ret = [exc |-> "EngineError", val |-> None]]
    /\ UNCHANGED <<programa, pasta, indice_disco, templates_map, rankVars>>

\* arquivos = sorted([... os.listdir(pasta_templates) ...]): os.listdir
\* raises when the folder cannot be read, and nothing catches it.
Listar(t) ==
    /\ th[t].pc = "listdir"
    /\ \/ th' = [th EXCEPT ![t].arquivos = ListarTemplates(pasta),
                            ![t].pc = IF ListarTemplates(pasta) = <<>> THEN "save" ELSE "add"]
       \/ th' = Raise(t, "", "OSError")
    /\ UNCHANGED <<programa, pasta, indice_disco, engine, templates_map, rankVars>>

\* Mutant of Add: template_id counts the successful adds only, so a failure
\* shifts the identities of the files after it.
Add_ShiftIds(t) ==
    /\ th[t].pc = "add"
    /\ LET template_id == th[t].sucessos
           arquivo == th[t].arquivos[th[t].i + 1]
           next == IF th[t].i + 1 = Len(th[t].arquivos) THEN "save" ELSE "add"
           attempt(raised) == [arquivo |-> arquivo, id |-> template_id, raised |-> raised]
       IN  \/ /\ engine' = Some(EngineIds \cup {template_id})
              /\ templates_map' = IF programa = "script" THEN templates_map
                                  ELSE (template_id :> arquivo) @@ templates_map
              /\ th' = [Logged(t, "AddTextTemplateToMccIndex", FALSE) EXCEPT
                          ![t].adds = Append(@, attempt(FALSE)),
                          ![t].sucessos = @ + 1, ![t].i = @ + 1, ![t].pc = next]
           \/ /\ UNCHANGED <<engine, templates_map>>
              /\ th' = [Logged(t, "AddTextTemplateToMccIndex", TRUE) EXCEPT
                          ![t].adds = Append(@, attempt(TRUE)),
                          ![t].erros = Append(@, [id |-> template_id, arquivo |-> arquivo]),
                          ![t].i = @ + 1, ![t].pc = next]
    /\ UNCHANGED <<programa, pasta, indice_disco, rankVars>>

\* One turn of the loop over enumerate(arquivos): the file at position i is
\* added under template_id i; a failing add is recorded and the loop goes on.
Add(t) ==
    /\ th[t].pc = "add"
    /\ LET template_id == th[t].i
           arquivo == th[t].arquivos[th[t].i + 1]
           next == IF th[t].i + 1 = Len(th[t].arquivos) THEN "save" ELSE "add"
           attempt(raised) == [arquivo |-> arquivo, id |-> template_id, raised |-> raised]
       IN  \/ /\ engine' = Some(EngineIds \cup {template_id})
              /\ templates_map' = IF programa = "script" THEN templates_map
                                  ELSE (template_id :> arquivo) @@ templates_map
              /\ th' = [Logged(t, "AddTextTemplateToMccIndex", FALSE) EXCEPT
                          ![t].adds = Append(@, attempt(FALSE)),
                          ![t].sucessos = @ + 1, ![t].i = @ + 1, ![t].pc = next]
           \/ /\ UNCHANGED <<engine, templates_map>>
              /\ th' = [Logged(t, "AddTextTemplateToMccIndex", TRUE) EXCEPT
                          ![t].adds = Append(@, attempt(TRUE)),
                          ![t].erros = Append(@, [id |-> template_id, arquivo |-> arquivo]),
                          ![t].i = @ + 1, ![t].pc = next]
    /\ UNCHANGED <<programa, pasta, indice_disco, rankVars>>

\* Mutant of Save: the index is saved without the test on sucessos.
Save_Always(t) ==
    /\ th[t].pc = "save"
    /\ \/ /\ indice_disco' = Some(EngineIds)
          /\ th' = [Logged(t, "SaveMccIndexToFile", FALSE) EXCEPT ![t].pc = "delete"]
       \/ /\ UNCHANGED indice_disco
          /\ th' = Raise(t, "SaveMccIndexToFile", "EngineError")
    /\ UNCHANGED <<programa, pasta, engine, templates_map, rankVars>>

\* if sucessos > 0: MccSdk.SaveMccIndexToFile(arquivo_indice). The engine's
\* index is written to the file; a raise leaves the function.
Save(t) ==
    /\ th[t].pc = "save"
    /\ \/ /\ th[t].sucessos > 0
          /\ indice_disco' = Some(EngineIds)
          /\ th' = [Logged(t, "SaveMccIndexToFile", FALSE) EXCEPT ![t].pc = "delete"]
       \/ /\ th[t].sucessos > 0
          /\ UNCHANGED indice_disco
          /\ th' = Raise(t, "SaveMccIndexToFile", "EngineError")
       \/ /\ th[t].sucessos = 0
          /\ UNCHANGED indice_disco
          /\ th' = [th EXCEPT ![t].pc = "delete"]
    /\ UNCHANGED <<programa, pasta, engine, templates_map, rankVars>>

\* The build report criar_indice returns (tempo_segundos left out;
\* criar_indice_mcc returns the same three numbers as a tuple).
Report(t) ==
    [total |-> Len(th[t].arquivos), sucessos |-> th[t].sucessos,
     erros |-> Len(th[t].erros)]

\* MccSdk.DeleteMccIndex() as the last statement of the create function, and
\* its return; /setup goes on to reload the mapping.
Delete(t) ==
    /\ th[t].pc = "delete"
    /\ \/ /\ engine' = None
          /\ th' = [Logged(t, "DeleteMccIndex", FALSE) EXCEPT
                      ![t].pc = IF th[t].op = "setup" THEN "remap" ELSE "done",
                      ![t].ret = [exc |-> "none", val |-> Report(t)]]
       \/ /\ UNCHANGED engine
          /\ th' = Raise(t, "DeleteMccIndex", "EngineError")
    /\ UNCHANGED <<programa, pasta, indice_disco, templates_map, rankVars>>

\* setup(): matcher._carregar_mapeamento() after criar_indice returned.
Remap(t) ==
    /\ th[t].pc = "remap"
    /\ \/ /\ templates_map' = Enumerate(ListarTemplates(pasta))
          /\ th' = [th EXCEPT ![t].pc = "done",
                               ![t].arquivos_mapa = ListarTemplates(pasta)]
       \/ /\ UNCHANGED templates_map
          /\ th' = Raise(t, "", "OSError")
    /\ UNCHANGED <<programa, pasta, indice_disco, engine, rankVars>>

\* MccFingerprintMatcher.carregar_mapeamento()
CarregarMapeamento(t) ==
    /\ th[t].pc = "idle"
    /\ CanRun(t)
    /\ programa = "api"
    /\ templates_map' = Enumerate(ListarTemplates(pasta))
    /\ th' = [th EXCEPT ![t] = [Idle EXCEPT !.op = "carregar_mapeamento", !.pc = "done",
                                  !.arquivos_mapa = ListarTemplates(pasta),
                                  !.ret = [exc |-> "none",
                                           val |-> Len(ListarTemplates(pasta))]]]
    /\ UNCHANGED <<programa, pasta, indice_disco, engine, rankVars>>

\* Between two operations the files of pasta_templates change: the next
\* os.listdir finds another file set.
Pastas == {{a_txt, B_txt, n_dat}, {a_txt, n_dat}, {B_txt, c_TXT, n_dat}}
MudarPasta ==
    /\ \A t \in Threads : th[t].pc = "idle"
    /\ \E dir \in Pastas \ {pasta} : pasta' = dir
    /\ UNCHANGED <<programa, indice_disco, engine, templates_map, th, rankVars>>

\* ------------------------------------------------------- the three programs
\* After construction: the service has loaded its mapping (__init__ calls
\* _carregar_mapeamento), the api matcher's is empty; the index file may or
\* may not have been built by an earlier run.
Init ==
    /\ programa \in {"api", "service", "script"}
    /\ pasta = {a_txt, B_txt, n_dat}
    /\ indice_disco \in {None, Some(DOMAIN Enumerate(ListarTemplates(pasta)))}
    /\ engine = None
    /\ templates_map = IF programa = "service"
                       THEN Enumerate(ListarTemplates(pasta))
                       ELSE <<>>
    /\ th = [t \in Threads |-> Idle]
    /\ entrada = Malformed
    /\ chamada = [op |-> "none"]
    /\ saida = None

Next ==
    \E t \in Threads :
        \/ \E op \in AllSearchOps : BuscarInicio(t, op)
        \/ Load(t)
        \/ Search(t)
        \/ Release(t)
        \/ BuscarSimilaresJson(t)
        \/ Retornar(t)
        \/ \E op \in AllCreateOps : CriarInicio(t, op)
        \/ Listar(t)
        \/ Add(t)
        \/ Save(t)
        \/ Delete(t)
        \/ Remap(t)
        \/ CarregarMapeamento(t)

Spec == Init /\ [][Next]_vars

\* --------------------------------------------- registry over folder changes
\* One client creating indexes and reloading the mapping, while the folder
\* changes between its calls.
NextReg ==
    \/ MudarPasta
    \/ \E op \in AllCreateOps : CriarInicio("t1", op)
    \/ Listar("t1")
    \/ Add("t1")
    \/ Save("t1")
    \/ Delete("t1")
    \/ Remap("t1")
    \/ CarregarMapeamento("t1")
    \/ Retornar("t1")

SpecReg == Init /\ [][NextReg]_vars

\* ------------------------------------------- ranking runs (pure functions)
\* The search functions applied to one engine result, outside any engine
\* lifecycle: Init draws the engine's result, each action applies one
\* function to it with arguments drawn from the callers' ranges.
NoCall == [op |-> "none"]

InitRank ==
    /\ programa = "funcoes"
    /\ pasta = {a_txt, n_dat}
    /\ indice_disco = Some(DOMAIN Enumerate(ListarTemplates(pasta)))
    /\ engine = None
    /\ templates_map = Enumerate(ListarTemplates(pasta))
    /\ th = [t \in Threads |-> Idle]
    /\ entrada \in EngineResults
    /\ chamada = NoCall
    /\ saida = None

\* MccFingerprintMatcher.buscar_similares on the result.
RankApi ==
    /\ chamada = NoCall
    /\ \E top_n \in TopNs, score_minimo \in Limiares :
         /\ chamada' = [op |-> "api", top_n |-> top_n, score_minimo |-> score_minimo]
         /\ saida' = ApiTryBody(entrada, top_n, score_minimo, templates_map)
    /\ UNCHANGED <<lifeVars, entrada>>

\* MccMatcherService.buscar_similares on the result.
RankSvc ==
    /\ chamada = NoCall
    /\ \E top_n \in TopNs, score_minimo \in Limiares :
         /\ chamada' = [op |-> "service", top_n |-> top_n, score_minimo |-> score_minimo]
         /\ saida' = SvcTryBody(entrada, top_n, score_minimo, templates_map)
    /\ UNCHANGED <<lifeVars, entrada>>

\* buscar_no_indice on the result.
RankNoIndice ==
    /\ chamada = NoCall
    /\ \E max_candidatos \in MaxCands :
         /\ chamada' = [op |-> "buscar_no_indice", max_candidatos |-> max_candidatos]
         /\ saida' = BuscarNoIndice(entrada, max_candidatos)
    /\ UNCHANGED <<lifeVars, entrada>>

\* buscar_com_politicas on the result: buscar_e_comparar, then the decision.
RankPoliticas ==
    /\ chamada = NoCall
    /\ \E max_candidatos \in MaxCands, limiar_match \in Limiares,
          limiar_ambiguidade \in Limiares :
         /\ chamada' = [op |-> "buscar_com_politicas",
                        max_candidatos |-> max_candidatos,
                        limiar_match |-> limiar_match,
                        limiar_ambiguidade |-> limiar_ambiguidade]
         /\ saida' = Politicas(
                        BuscarEComparar(entrada, ListarTemplates(pasta), max_candidatos),
                        limiar_match, limiar_ambiguidade)
    /\ UNCHANGED <<lifeVars, entrada>>

NextRank == RankApi \/ RankSvc \/ RankNoIndice \/ RankPoliticas

SpecRank == InitRank /\ [][NextRank]_vars

\* --------------------------------------------- claims on the lifecycles
\* The engine calls of thread t's current call, by name.
CallsOf(t, fn) == { i \in 1..Len(th[t].calls) : th[t].calls[i].fn = fn }
\* The current call of t loaded (created) the engine index.
DidLoad(t) ==
    \E i \in 1..Len(th[t].calls) : th[t].calls[i] = Call("LoadMccIndexFromFile", FALSE)
DidCreate(t) ==
    \E i \in 1..Len(th[t].calls) : th[t].calls[i] = Call("CreateMccIndex", FALSE)
\* t is between its own load/create and its matching release.
InScope(t) == th[t].pc \in {"search", "release", "listdir", "add", "save", "delete"}
Ended(t) == th[t].pc = "done"

\* C1: a search call that loaded the engine index has called DeleteMccIndex
\* exactly once when it returns or raises, as its last engine call, whatever
\* the search did (ranked result, no candidates, malformed result, raise);
\* it never calls it twice, and never before its search.
C1_ReleaseExactlyOnce ==
    \A t \in Threads :
        th[t].op \in AllSearchOps =>
            /\ Cardinality(CallsOf(t, "DeleteMccIndex")) <= 1
            /\ (Ended(t) /\ DidLoad(t)) =>
                  /\ Cardinality(CallsOf(t, "DeleteMccIndex")) = 1
                  /\ th[t].calls[Len(th[t].calls)].fn = "DeleteMccIndex"
                  /\ Cardinality(CallsOf(t, "SearchTextTemplateIntoMccIndex")) = 1
            /\ (Ended(t) /\ ~DidLoad(t)) => CallsOf(t, "DeleteMccIndex") = {}

\* C1 witness: the engine raised during the search of the api's
\* buscar_similares, the exception left the call, and the call released once.
C1_Witness ==
    \E t \in Threads :
        /\ programa = "api"
        /\ th[t].op = "buscar_similares"
        /\ Ended(t)
        /\ th[t].ret.exc = "EngineError"
        /\ th[t].calls = <<Call("LoadMccIndexFromFile", FALSE),
                           Call("SearchTextTemplateIntoMccIndex", TRUE),
                           Call("DeleteMccIndex", FALSE)>>

\* C2 (as claimed): a create call that created the engine index has called
\* DeleteMccIndex by the time it ends, on every path.
C2_CreateAlwaysReleases ==
    \A t \in Threads :
        (th[t].op \in AllCreateOps /\ Ended(t) /\ DidCreate(t)) =>
            CallsOf(t, "DeleteMccIndex") # {}

\* C3 (as claimed): no two requests are between their own load/create and
\* their matching release at once, and a request about to search finds the
\* index it loaded still in the engine.
C3_Serialized ==
    /\ \A t, u \in Threads : (t # u /\ InScope(t)) => ~InScope(u)
    /\ \A t \in Threads : th[t].pc = "search" => engine # None

\* C4 (as claimed): a search call whose probe file or index file does not
\* exist makes no engine call and ends with a not-found outcome.
NotFoundOutcome(t) ==
    \/ th[t].ret.exc = "FileNotFoundError"
    \/ /\ th[t].ret.exc = "none"
       /\ programa = "service"
       /\ th[t].ret.val.status = "erro"
       /\ th[t].ret.val.mensagem \in {"Arquivo nao encontrado", "Indice nao encontrado"}
C4_NotFoundNoEngineCall ==
    \A t \in Threads :
        (th[t].op \in AllSearchOps /\ (~th[t].probe_existe \/ ~th[t].indice_existe)) =>
            /\ th[t].calls = <<>>
            /\ Ended(t) => NotFoundOutcome(t)

\* ------------------------------------------------- claims on ranking runs
IsRankCall == chamada.op \in {"api", "service"}
IsPolicyCall == chamada.op = "buscar_com_politicas"

\* The scores of the ranked output of an api or service call, in order.
OutScores ==
    IF chamada.op = "api"
    THEN [r \in 1..Len(saida.ret) |-> saida.ret[r].score]
    ELSE [r \in 1..Len(saida.candidatos) |-> saida.candidatos[r].score_mcc]
OutRanks ==
    IF chamada.op = "api"
    THEN [r \in 1..Len(saida.ret) |-> saida.ret[r].rank]
    ELSE [r \in 1..Len(saida.candidatos) |-> saida.candidatos[r].rank]
OutFiles ==
    IF chamada.op = "api"
    THEN [r \in 1..Len(saida.ret) |-> saida.ret[r].arquivo]
    ELSE [r \in 1..Len(saida.candidatos) |-> saida.candidatos[r].arquivo]
\* The call ranked something (it did not raise or report an error).
Ranked ==
    /\ IsRankCall
    /\ entrada.shape = "tuple"
\* Positions of the engine's result whose score is at least score_minimo.
Survivors == { i \in 1..Len(entrada.candidateList) :
                 entrada.sortedSimilarities[i] >= chamada.score_minimo }
\* The largest score the engine reported.
MaxOf(scores) == CHOOSE m \in { scores[i] : i \in 1..Len(scores) } :
                    \A i \in 1..Len(scores) : scores[i] <= m

\* C5: buscar_com_politicas decides existence, then threshold, then
\* ambiguity, each stage terminal: NAO_ENCONTRADO iff no candidate; else
\* ABAIXO_LIMIAR iff the top score is below limiar_match; else AMBIGUO iff
\* there are two candidates and top - second < limiar_ambiguidade; else
\* MATCH. One candidate at or above the threshold is MATCH.
C5_PolicyOrder ==
    IsPolicyCall =>
        LET c == BuscarEComparar(entrada, ListarTemplates(pasta), chamada.max_candidatos)
            empty == Len(c) = 0
            below == ~empty /\ c[1].score < chamada.limiar_match
            ambiguous == /\ ~empty /\ ~below /\ Len(c) >= 2
                         /\ c[1].score - c[2].score < chamada.limiar_ambiguidade
        IN  /\ (saida.status = "NAO_ENCONTRADO") <=> empty
            /\ (saida.status = "ABAIXO_LIMIAR") <=> below
            /\ (saida.status = "AMBIGUO") <=> ambiguous
            /\ (saida.status = "MATCH") <=> (~empty /\ ~below /\ ~ambiguous)
            /\ (Len(c) = 1 /\ c[1].score >= chamada.limiar_match) => saida.status = "MATCH"

\* C5 witness: a single candidate at the threshold, with an ambiguity margin
\* larger than its score, is decided MATCH.
C5_Witness ==
    /\ IsPolicyCall
    /\ Len(saida.candidatos) = 1
    /\ saida.candidatos[1].score = chamada.limiar_match
    /\ chamada.limiar_ambiguidade > saida.candidatos[1].score
    /\ chamada.limiar_match > 0
    /\ saida.status = "MATCH"

\* C6 (as claimed): the candidate buscar_com_politicas treats as top has the
\* largest score the engine reported, and the runner-up the second largest.
C6_TopIsMax ==
    (IsPolicyCall /\ Len(saida.candidatos) >= 1) =>
        LET sorted == SortReverse([i \in 1..Len(entrada.candidateList) |->
                                     [score |-> entrada.sortedSimilarities[i]]])
        IN  /\ saida.candidatos[1].score = MaxOf(entrada.sortedSimilarities)
            /\ Len(saida.candidatos) >= 2 => saida.candidatos[2].score = sorted[2].score

\* C7 (as claimed): id and score are non-null exactly when status is MATCH.
C7_OnlyMatchCarries ==
    IsPolicyCall =>
        /\ (saida.id # None) <=> (saida.status = "MATCH")
        /\ (saida.score # None) <=> (saida.status = "MATCH")

\* C7 (amended): id is non-null exactly when status is MATCH; score is
\* non-null exactly when status is MATCH or ABAIXO_LIMIAR, and is then the
\* top candidate's score; both are null for NAO_ENCONTRADO and AMBIGUO.
C7_Carries ==
    IsPolicyCall =>
        /\ (saida.id # None) <=> (saida.status = "MATCH")
        /\ (saida.score # None) <=> (saida.status \in {"MATCH", "ABAIXO_LIMIAR"})
        /\ saida.id # None => saida.id = Some(saida.candidatos[1].id)
        /\ saida.score # None => saida.score = Some(saida.candidatos[1].score)
        /\ saida.status \in {"NAO_ENCONTRADO", "AMBIGUO"} =>
              (saida.id = None /\ saida.score = None)

\* C7 witness: a below-threshold outcome that carries the top score and no id,
\* reached with a runner-up present.
C7_Witness ==
    /\ IsPolicyCall
    /\ saida.status = "ABAIXO_LIMIAR"
    /\ Len(saida.candidatos) >= 2
    /\ saida.score = Some(saida.candidatos[1].score)
    /\ saida.id = None

C9_RankOrdering ==
    Ranked =>
        /\ \A r \in 1..Len(OutRanks) : OutRanks[r] = r
        /\ \A r \in 1..(Len(OutScores) - 1) : OutScores[r] >= OutScores[r + 1]

\* C9 witness: the engine reported strictly increasing scores and the output
\* holds three candidates.
C9_Witness ==
    /\ Ranked
    /\ Len(OutScores) >= 3
    /\ OutScores[1] > OutScores[3]
    /\ \A i \in 1..(Len(entrada.sortedSimilarities) - 1) :
          entrada.sortedSimilarities[i] <= entrada.sortedSimilarities[i + 1]

\* C10 (as claimed): for every top_n the search accepts, negative ones
\* included, at most top_n candidates are returned.
C10_AtMostTopN ==
    Ranked => Len(OutScores) <= chamada.top_n

\* The call returned normally: no exception, and no 'erro' status.
RankSucceeded ==
    IF chamada.op = "api" THEN saida.exc = "none" ELSE saida.status = "sucesso"
\* The engine's candidates at or above score_minimo, in the engine's order,
\* each with the file name its identity resolves to.
ExpectedName(id) ==
    IF id \in DOMAIN templates_map THEN templates_map[id] ELSE <<73, 68, 95, 48 + id>>
EngineSurvivors ==
    SelectSeq([i \in 1..Len(entrada.candidateList) |->
                 [arquivo |-> ExpectedName(entrada.candidateList[i]),
                  score |-> entrada.sortedSimilarities[i]]],
              LAMBDA c : c.score >= chamada.score_minimo)
OutPairs == [r \in 1..Len(OutScores) |-> [arquivo |-> OutFiles[r], score |-> OutScores[r]]]
CountOf(seq, x) == Cardinality({ k \in 1..Len(seq) : seq[k] = x })

\* C11: when fewer than top_n candidates survive the score_minimo filter,
\* the call succeeds and its output holds every survivor exactly as often as
\* the engine reported it: nothing dropped, padded or duplicated.
C11_RankTotality ==
    (Ranked /\ Len(EngineSurvivors) < chamada.top_n) =>
        /\ RankSucceeded
        /\ Len(OutPairs) = Len(EngineSurvivors)
        /\ \A k \in 1..Len(EngineSurvivors) :
              CountOf(OutPairs, EngineSurvivors[k]) = CountOf(EngineSurvivors, EngineSurvivors[k])
        /\ \A r \in 1..Len(OutPairs) :
              CountOf(OutPairs, OutPairs[r]) = CountOf(EngineSurvivors, OutPairs[r])

\* C11 witness: two of three candidates survive, top_n is larger, and both
\* are returned.
C11_Witness ==
    /\ Ranked
    /\ Len(entrada.candidateList) = 3
    /\ Len(EngineSurvivors) = 2
    /\ chamada.top_n > 2
    /\ Len(OutPairs) = 2
    /\ OutPairs[1] # OutPairs[2]

\* C14: resolving an identity never fails: each ranked candidate carries the
\* mapped name of its identity, or 'ID_<identity>' when the mapping has no
\* entry for it, and the call still succeeds with the other candidates.
C14_ResolveNeverFails ==
    Ranked =>
        /\ RankSucceeded
        /\ chamada.op = "api" =>
              \A r \in 1..Len(saida.ret) :
                 saida.ret[r].arquivo = ExpectedName(saida.ret[r].id)
        /\ \A r \in 1..Len(OutPairs) : CountOf(EngineSurvivors, OutPairs[r]) >= 1
        /\ Len(EngineSurvivors) <= chamada.top_n =>
              \A k \in 1..Len(EngineSurvivors) : CountOf(OutPairs, EngineSurvivors[k]) >= 1

\* C14 witness: the output holds a candidate under its placeholder name next
\* to one under its mapped name.
C14_Witness ==
    /\ Ranked
    /\ RankSucceeded
    /\ \E r, q \in 1..Len(OutFiles) :
          /\ OutFiles[r] = <<73, 68, 95, 49>>
          /\ OutFiles[q] = a_txt

\* C17 (as claimed): zero candidates, a malformed engine result, and all
\* candidates filtered out each give an empty candidate sequence as a
\* successful outcome, never an error status or an exception.
C17_EmptyIsSuccess ==
    (IsRankCall /\ (entrada.shape = "malformed"
                    \/ (entrada.shape = "tuple" /\ EngineSurvivors = <<>>))) =>
        /\ RankSucceeded
        /\ OutScores = <<>>

\* The files of the candidates with score v, in order.
TiesOf(pairs, v) == SelectSeq(pairs, LAMBDA c : c.score = v)

\* C19: candidates with equal scores keep the relative order in which the
\* engine emitted them: for each score, the output's candidates with that
\* score are the first of the engine's survivors with that score, in the
\* engine's order.
C19_StableTies ==
    Ranked =>
        \A v \in Scores :
            LET out == TiesOf(OutPairs, v)
                eng == TiesOf(EngineSurvivors, v)
            IN  /\ Len(out) <= Len(eng)
                /\ \A k \in 1..Len(out) : out[k] = eng[k]

\* C19 witness: two candidates of equal score and different names are
\* returned behind a higher-scored one that the engine emitted last.
C19_Witness ==
    /\ Ranked
    /\ Len(OutPairs) = 3
    /\ OutPairs[2].score = OutPairs[3].score
    /\ OutPairs[2].arquivo # OutPairs[3].arquivo
    /\ OutPairs[1].score > OutPairs[2].score
    /\ entrada.sortedSimilarities[3] = OutPairs[1].score


\* --------------------------------------------- claims on registry and build
\* t's call has returned normally.
Returned(t) == Ended(t) /\ th[t].ret.exc = "none"
\* The listing the registry operation of t enumerated last.
ListingOf(t) ==
    IF th[t].op = "criar_indice" THEN th[t].arquivos ELSE th[t].arquivos_mapa

\* C12 (as claimed): when criar_indice, /setup or carregar_mapeamento
\* completes, every entry i -> name of templates_map has i within 0..n-1 and
\* name the i-th file of the sorted listing this operation enumerated; no
\* entry of an earlier listing survives.
C12_RegistryFresh ==
    \A t \in Threads :
        (Returned(t) /\ th[t].op \in {"criar_indice", "setup", "carregar_mapeamento"}) =>
            \A i \in DOMAIN templates_map :
                /\ i < Len(ListingOf(t))
                /\ templates_map[i] = ListingOf(t)[i + 1]

\* C13 (as claimed): identities follow the case-insensitive order of the
\* file names: if lower(a) sorts before lower(b), a has the smaller identity.
C13_CaseInsensitive ==
    \A t \in Threads :
        /\ \A j, k \in 1..Len(th[t].adds) :
              StrLess(Lower(th[t].adds[j].arquivo), Lower(th[t].adds[k].arquivo))
                  => th[t].adds[j].id < th[t].adds[k].id
        /\ \A j, k \in 1..Len(th[t].arquivos_mapa) :
              StrLess(Lower(th[t].arquivos_mapa[j]), Lower(th[t].arquivos_mapa[k])) => j < k

\* C13 (amended): identities follow the ordinal order of the file names,
\* code point by code point: if a sorts before b as Python compares str, a is
\* added under the smaller identity, comes first in the listing a reload
\* enumerates, and has the smaller identity in the reloaded mapping.
C13_OrdinalOrder ==
    \A t \in Threads :
        /\ \A j, k \in 1..Len(th[t].adds) :
              StrLess(th[t].adds[j].arquivo, th[t].adds[k].arquivo)
                  => th[t].adds[j].id < th[t].adds[k].id
        /\ \A j, k \in 1..Len(th[t].arquivos_mapa) :
              StrLess(th[t].arquivos_mapa[j], th[t].arquivos_mapa[k]) => j < k
        /\ (Returned(t) /\ th[t].op \in {"setup", "carregar_mapeamento"}) =>
              \A i, j \in DOMAIN templates_map :
                  StrLess(templates_map[i], templates_map[j]) => i < j

\* C13 witness: 'B.txt' was added under identity 0 and 'a.txt' under 1.
C13_Witness ==
    \E t \in Threads :
        /\ Len(th[t].adds) = 2
        /\ th[t].adds[1] = [arquivo |-> B_txt, id |-> 0, raised |-> FALSE]
        /\ th[t].adds[2] = [arquivo |-> a_txt, id |-> 1, raised |-> FALSE]

\* The add attempts of t that raised (did not raise).
AddsWhere(t, raised) == { k \in 1..Len(th[t].adds) : th[t].adds[k].raised = raised }

\* C15: an index build attempts each enumerated file once, in the listing's
\* order, under the identity equal to its 0-based position whatever failed
\* before; each failure is recorded with its identity and file; once the loop
\* is over every file has had its attempt, and the report has
\* total = sucessos + erros = the number of files.
C15_ContinueOnError ==
    \A t \in Threads :
        th[t].op \in AllCreateOps =>
            /\ Len(th[t].adds) = th[t].i
            /\ Len(th[t].adds) <= Len(th[t].arquivos)
            /\ Cardinality(CallsOf(t, "AddTextTemplateToMccIndex")) = Len(th[t].adds)
            /\ \A k \in 1..Len(th[t].adds) :
                  /\ th[t].adds[k].arquivo = th[t].arquivos[k]
                  /\ th[t].adds[k].id = k - 1
            /\ th[t].sucessos = Cardinality(AddsWhere(t, FALSE))
            /\ Len(th[t].erros) = Cardinality(AddsWhere(t, TRUE))
            /\ \A k \in AddsWhere(t, TRUE) :
                  \E e \in 1..Len(th[t].erros) :
                      th[t].erros[e] = [id |-> k - 1, arquivo |-> th[t].arquivos[k]]
            /\ th[t].pc \in {"save", "delete", "remap"} =>
                  Len(th[t].adds) = Len(th[t].arquivos)
            /\ (th[t].pc \in {"remap", "done"} /\ th[t].ret.exc = "none") =>
                  /\ th[t].ret.val.total = th[t].ret.val.sucessos + th[t].ret.val.erros
                  /\ th[t].ret.val.total = Len(th[t].arquivos)
                  /\ th[t].ret.val.sucessos = Cardinality(AddsWhere(t, FALSE))
                  /\ Len(th[t].adds) = Len(th[t].arquivos)

\* C15 witness: the first file's add failed, the second file was then added
\* under identity 1, and the build reported 2 = 1 + 1.
C15_Witness ==
    \E t \in Threads :
        /\ th[t].op \in AllCreateOps
        /\ Returned(t)
        /\ Len(th[t].adds) = 2
        /\ th[t].adds[1].raised
        /\ th[t].adds[2] = [arquivo |-> th[t].arquivos[2], id |-> 1, raised |-> FALSE]
        /\ th[t].ret.val = [total |-> 2, sucessos |-> 1, erros |-> 1]

\* The engine calls of an index creation, as logged so far: at most one
\* save, none while no add has succeeded, only after every file had its
\* add, before the release, and exactly one once the release is reached with
\* a successful add.
C16_SaveLog ==
    \A t \in Threads :
        th[t].op \in AllCreateOps =>
            /\ Cardinality(CallsOf(t, "SaveMccIndexToFile")) <= 1
            /\ th[t].sucessos = 0 => CallsOf(t, "SaveMccIndexToFile") = {}
            /\ \A s \in CallsOf(t, "SaveMccIndexToFile") :
                  /\ Cardinality(CallsOf(t, "AddTextTemplateToMccIndex")) = Len(th[t].arquivos)
                  /\ \A a \in CallsOf(t, "AddTextTemplateToMccIndex") : a < s
                  /\ \A d \in CallsOf(t, "DeleteMccIndex") : s < d
            /\ (th[t].sucessos > 0
                  /\ (th[t].pc = "delete" \/ CallsOf(t, "DeleteMccIndex") # {})) =>
                  Cardinality(CallsOf(t, "SaveMccIndexToFile")) = 1

\* The index file changes only in the step of a save call that did not
\* raise, made by an index creation with at least one successful add.
C16_SaveStep ==
    indice_disco' # indice_disco =>
        \E t \in Threads :
            /\ th[t].op \in AllCreateOps
            /\ th[t].sucessos > 0
            /\ th'[t].calls = Append(th[t].calls, Call("SaveMccIndexToFile", FALSE))

\* C16: index creation saves the index if and only if at least one add
\* succeeded: with no successful add it never calls save and never changes
\* the index file; with one, it calls save exactly once, after all adds and
\* before the release.
C16_SaveIffSuccess == []C16_SaveLog /\ [][C16_SaveStep]_vars

\* C16 witness: an index creation whose two adds both failed has released
\* and returned without a save, and the index file of the earlier run is
\* still there.
C16_Witness ==
    \E t \in Threads :
        /\ th[t].op \in AllCreateOps
        /\ Returned(t)
        /\ Len(th[t].adds) = 2
        /\ th[t].sucessos = 0
        /\ CallsOf(t, "SaveMccIndexToFile") = {}
        /\ CallsOf(t, "DeleteMccIndex") # {}
        /\ indice_disco = Some({0, 1})

\* C18 (as claimed): no engine failure leaves MccMatcherService.criar_indice
\* (run by /setup), MccMatcherService.buscar_similares or
\* MccFingerprintMatcher.buscar_similares_json as an exception: each ends
\* with a value.
C18_AllCaught ==
    \A t \in Threads :
        (Ended(t) /\ \/ programa = "service" /\ th[t].op \in {"setup", "buscar_similares"}
                     \/ th[t].op = "buscar_similares_json") =>
            th[t].ret.exc # "EngineError"

====
